---- MODULE Spec2Model ----
(***************************************************************************)
(* uvn: a centralized manager of Python virtual environments built on uv.  *)
(* Model of src/src/uvn/core.py (class UVN) and of the commands of         *)
(* src/src/uvn/cli.py that the properties below talk about.                *)
(*                                                                         *)
(* Spec       : the environments under one root directory and the          *)
(*              operations on them (construct, create, remove, list, fork) *)
(* SpecExport : the export engine on one valid environment (requirements,  *)
(*              manifest, script metadata, lock file, export to a target)  *)
(* SpecVersion: the properties a handle derives from its full version      *)
(* SpecCli    : the commands of the CLI and their exit codes               *)
(***************************************************************************)
EXTENDS Integers, Sequences, FiniteSets, TLC

(* Bounds of the model. *)
NumNames == 2
MaxTime == 2

Names == 1..NumNames          \* entry names under root, in name order
Times == 1..MaxTime           \* values of st_ctime

VARIABLES
    fs,        \* fs[n]: what is on disk at root/n
    ctime,     \* ctime[n]: st_ctime of root/n when it is a directory, else 0
    last,      \* outcome of the last operation that returned or raised
    scenario,  \* progress of the sequence Create, Create, Remove, Remove on last.name
    pc,        \* position inside fork(): "idle", "fork_freeze", "fork_install"
    tmpfile,   \* fork()'s NamedTemporaryFile exists on disk
    forkEnv,   \* name of the environment fork() created
    pkgs,      \* number of packages installed in the exported environment
    target,    \* the export target: its suffix, whether it exists, its text
    tmpdir,    \* get_lock()'s TemporaryDirectory: whether it exists, the files in it
    xpc,       \* position inside get_lock(): "idle", "lock_manifest", "lock_run"
    caller,    \* who called get_lock(): "api" or "export"
    nexports,  \* number of export operations started
    xlast,     \* outcome of the last export operation that returned or raised
    fields,    \* the five logical fields the interpreter's full version was built from
    props,     \* the derived property of the handle read last, and its value
    cli        \* the last CLI command: its arguments, the error the core raised, its exit code

envvars == <<fs, ctime, last, scenario, pc, tmpfile, forkEnv>>

xvars == <<pkgs, target, tmpdir, xpc, caller, nexports, xlast>>

othervars == <<fields, props, cli>>

vars == <<envvars, xvars, othervars>>

(***************************************************************************)
(* What can be at root/n:                                                  *)
(*   "absent"  nothing                                                     *)
(*   "file"    a regular file                                              *)
(*   "nopy"    a directory with nothing at bin/python                      *)
(*   "ok"      a directory whose bin/python runs and exits 0               *)
(*   "bad"     a directory whose bin/python runs and exits non-zero        *)
(*   "noexec"  a directory whose bin/python exists but cannot be executed  *)
(***************************************************************************)
EntryStates == {"absent", "file", "nopy", "ok", "bad", "noexec"}

path_exists(e) == e # "absent"

is_dir(e) == e \notin {"absent", "file"}

python_exists(e) == e \in {"ok", "bad", "noexec"}

\* subprocess.run([self.python, "-c", cmd]): an exit code, or OSError raised by exec
run_python(e) ==
    CASE e = "ok" -> "exit0"
      [] e = "bad" -> "exit1"
      [] OTHER -> "oserror"

\* UVN.__init__: the handle, or the exception that leaves the constructor
Construct(e) ==
    IF ~python_exists(e) THEN "MissingError"
    ELSE IF run_python(e) = "oserror" THEN "OSError"
    ELSE IF run_python(e) # "exit0" THEN "CorruptedError"
    ELSE "handle"

\* a list() that skips missing environments only
IsMissingOnly(r) == r = "MissingError"

\* MissingError(FileNotFoundError), CorruptedError(ChildProcessError) and the
\* errors of exec are all OSError = EnvironmentError
IsEnvironmentError(r) == r \in {"MissingError", "CorruptedError", "OSError"}

(***************************************************************************)
(* The outcome record of an operation.                                     *)
(***************************************************************************)
NoOut == << >>

Outcome(op, n, strict, res, cause, tool, rc, pre, out) ==
    [op |-> op, name |-> n, strict |-> strict, res |-> res, cause |-> cause,
     tool |-> tool, rc |-> rc, pre |-> pre, out |-> out]

\* Monitor of the sequence Create(n) fresh, Create(n), Remove(n), Remove(n, strict=False)
NextScenario(op, n, strict, fresh) ==
    IF fresh THEN 1
    ELSE IF scenario = 1 /\ op = "create" /\ n = last.name THEN 2
    ELSE IF scenario = 2 /\ op = "remove" /\ strict /\ n = last.name THEN 3
    ELSE IF scenario = 3 /\ op = "remove" /\ ~strict /\ n = last.name THEN 4
    ELSE 0

(***************************************************************************)
(* UVN.create                                                              *)
(***************************************************************************)
ToolOutcomes == {"ok", "fail", "broken"}

\* run(["uv", "venv", *opt, path]): what the tool leaves at path
uv_venv(e, outcome) ==
    IF e = "file" THEN e
    ELSE CASE outcome = "ok" -> "ok"
           [] outcome = "broken" -> "bad"
           [] OTHER -> e

\* the tool runs only in the except MissingError branch
create_invokes_tool(r) == r = "MissingError"

create_entry(e, outcome) ==
    IF create_invokes_tool(Construct(e)) THEN uv_venv(e, outcome) ELSE e

\* create that overwrites a valid environment instead of refusing
create_result_overwrites(r, e2) ==
    CASE r = "MissingError" -> Construct(e2)
      [] r = "CorruptedError" -> "ExistsError"
      [] OTHER -> r

\* r: outcome of the first cls(path); e2: the entry after the tool ran
create_result(r, e2) ==
    CASE r = "MissingError" -> Construct(e2)
      [] r = "CorruptedError" -> "ExistsError"
      [] r = "handle" -> "ExistsError"
      [] OTHER -> r

create_cause(r) == IF r = "CorruptedError" THEN "CorruptedError" ELSE "none"

new_ctime(n, e2, t) ==
    IF e2 = fs[n] THEN ctime
    ELSE [ctime EXCEPT ![n] = IF is_dir(e2) THEN t ELSE 0]

Create(n) ==
    /\ pc = "idle"
    /\ \E outcome \in ToolOutcomes, t \in Times :
         LET r == Construct(fs[n])
             e2 == create_entry(fs[n], outcome)
             res == create_result(r, e2)
         IN /\ fs' = [fs EXCEPT ![n] = e2]
            /\ ctime' = new_ctime(n, e2, t)
            /\ last' = Outcome("create", n, FALSE, res, create_cause(r),
                               create_invokes_tool(r), 0, fs[n], NoOut)
            /\ scenario' = NextScenario("create", n, FALSE,
                                        r = "MissingError" /\ res = "handle")
    /\ UNCHANGED <<pc, tmpfile, forkEnv>>
    /\ UNCHANGED xvars
    /\ UNCHANGED othervars

(***************************************************************************)
(* The constructor called on its own (UVN(directory / env_name) in the CLI) *)
(***************************************************************************)
New(n) ==
    /\ pc = "idle"
    /\ last' = Outcome("construct", n, FALSE, Construct(fs[n]), "none", FALSE, 0,
                       fs[n], NoOut)
    /\ scenario' = NextScenario("construct", n, FALSE, FALSE)
    /\ UNCHANGED <<fs, ctime, pc, tmpfile, forkEnv>>
    /\ UNCHANGED xvars
    /\ UNCHANGED othervars

(***************************************************************************)
(* UVN.remove                                                              *)
(***************************************************************************)
\* shutil.rmtree(path) on an existing path
rmtree(e) == IF is_dir(e) THEN "absent" ELSE e

rmtree_raises(e) == IF is_dir(e) THEN "none" ELSE "NotADirectoryError"

\* the strict=False body
remove_unchecked(e) ==
    IF path_exists(e)
    THEN IF rmtree_raises(e) = "none" THEN "True" ELSE rmtree_raises(e)
    ELSE "False"

remove_result(e, strict) ==
    IF strict /\ Construct(e) # "handle" THEN Construct(e) ELSE remove_unchecked(e)

remove_entry(e, strict) ==
    IF strict /\ Construct(e) # "handle" THEN e
    ELSE IF path_exists(e) THEN rmtree(e) ELSE e

Remove(n, strict) ==
    /\ pc = "idle"
    /\ LET e2 == remove_entry(fs[n], strict)
       IN /\ fs' = [fs EXCEPT ![n] = e2]
          /\ ctime' = new_ctime(n, e2, 0)
          /\ last' = Outcome("remove", n, strict, remove_result(fs[n], strict),
                             "none", FALSE, 0, fs[n], NoOut)
          /\ scenario' = NextScenario("remove", n, strict, FALSE)
    /\ UNCHANGED <<pc, tmpfile, forkEnv>>
    /\ UNCHANGED xvars
    /\ UNCHANGED othervars

(***************************************************************************)
(* UVN.list and the CLI's list command                                     *)
(***************************************************************************)
Present == {n \in Names : path_exists(fs[n])}

\* root.iterdir(): the entries of root in an order the filesystem chooses
IterOrders ==
    {s \in [1..Cardinality(Present) -> Present] :
        \A i, j \in 1..Cardinality(Present) : s[i] = s[j] => i = j}

\* the entries whose constructor raises something "except EnvironmentError" lets through
list_escapes(order) ==
    {i \in 1..Len(order) :
        /\ is_dir(fs[order[i]])
        /\ Construct(fs[order[i]]) # "handle"
        /\ ~IsEnvironmentError(Construct(fs[order[i]]))}

\* "returned", or the exception that leaves UVN.list
list_result(order) ==
    IF list_escapes(order) = {} THEN "returned"
    ELSE Construct(fs[order[CHOOSE i \in list_escapes(order) :
                                \A j \in list_escapes(order) : i <= j]])

list_keeps(n) == is_dir(fs[n]) /\ Construct(fs[n]) = "handle"

list(order) ==
    IF list_result(order) = "returned" THEN SelectSeq(order, list_keeps) ELSE << >>

\* an ordering of handles by name
lt_by_name(a, b) == a < b

\* UVN.__lt__
lt(a, b) == ctime[a] < ctime[b]

\* one step of a stable insertion sort that compares with __lt__ only
insort(s, x) ==
    LET k == Cardinality({i \in 1..Len(s) : ~lt(x, s[i])})
    IN SubSeq(s, 1, k) \o <<x>> \o SubSeq(s, k + 1, Len(s))

RECURSIVE sorted(_)
sorted(s) ==
    IF s = << >> THEN << >>
    ELSE insort(sorted(SubSeq(s, 1, Len(s) - 1)), s[Len(s)])

\* cli.list_envs: envs = sorted(UVN.list(root=directory))
cli_list_rows(order) == sorted(list(order))

List ==
    /\ pc = "idle"
    /\ \E order \in IterOrders :
         last' = Outcome("list", 0, FALSE, list_result(order), "none", FALSE, 0, "absent",
                         <<order, list(order)>>)
    /\ scenario' = 0
    /\ UNCHANGED <<fs, ctime, pc, tmpfile, forkEnv>>
    /\ UNCHANGED xvars
    /\ UNCHANGED othervars

CliList ==
    /\ pc = "idle"
    /\ \E order \in IterOrders :
         last' = Outcome("cli_list", 0, FALSE, list_result(order), "none", FALSE, 0, "absent",
                         <<order, cli_list_rows(order)>>)
    /\ scenario' = 0
    /\ UNCHANGED <<fs, ctime, pc, tmpfile, forkEnv>>
    /\ UNCHANGED xvars
    /\ UNCHANGED othervars

(***************************************************************************)
(* UVN.fork, in three steps: create the new environment and open the       *)
(* temporary file; write the source's requirements to it; install them.    *)
(***************************************************************************)
ExitCodes == {0, 1}

\* cleanup that runs only when the block is left normally
tmpfile_after_with_leaks(raised) == raised

\* leaving "with tempfile.NamedTemporaryFile(...)": the file is deleted on close,
\* whether the block returns or raises
tmpfile_after_with(raised) == FALSE

ForkCreate(self, n) ==
    /\ pc = "idle"
    /\ Construct(fs[self]) = "handle"
    /\ \E outcome \in ToolOutcomes, t \in Times :
         LET r == Construct(fs[n])
             e2 == create_entry(fs[n], outcome)
             res == create_result(r, e2)
         IN /\ fs' = [fs EXCEPT ![n] = e2]
            /\ ctime' = new_ctime(n, e2, t)
            /\ IF res = "handle"
               THEN /\ pc' = "fork_freeze"
                    /\ tmpfile' = TRUE
                    /\ forkEnv' = n
                    /\ last' = Outcome("fork", n, FALSE, "running", "none",
                                       create_invokes_tool(r), 0, fs[n], NoOut)
               ELSE /\ last' = Outcome("fork", n, FALSE, res, "create",
                                       create_invokes_tool(r), 0, fs[n], NoOut)
                    /\ UNCHANGED <<pc, tmpfile, forkEnv>>
    /\ scenario' = 0
    /\ UNCHANGED xvars
    /\ UNCHANGED othervars

\* file.write(self.get_requirements(full=True, exact=True)); file.flush()
ForkFreeze ==
    /\ pc = "fork_freeze"
    /\ \E rc \in ExitCodes :
         IF rc # 0
         THEN /\ pc' = "idle"
              /\ tmpfile' = tmpfile_after_with(TRUE)
              /\ last' = [last EXCEPT !.res = "UVError", !.cause = "pip_freeze", !.rc = rc]
         ELSE /\ pc' = "fork_install"
              /\ UNCHANGED <<tmpfile, last>>
    /\ UNCHANGED <<fs, ctime, scenario, forkEnv>>
    /\ UNCHANGED xvars
    /\ UNCHANGED othervars

\* a fork that removes the new environment again when the install fails
ForkInstallRollsBack ==
    /\ pc = "fork_install"
    /\ \E rc \in ExitCodes :
         /\ pc' = "idle"
         /\ tmpfile' = FALSE
         /\ fs' = IF rc = 0 THEN fs ELSE [fs EXCEPT ![forkEnv] = "absent"]
         /\ ctime' = IF rc = 0 THEN ctime ELSE [ctime EXCEPT ![forkEnv] = 0]
         /\ last' = [last EXCEPT !.res = IF rc = 0 THEN "handle" ELSE "UVError",
                                 !.cause = "pip_install", !.rc = rc]
    /\ UNCHANGED <<scenario, forkEnv>>
    /\ UNCHANGED xvars
    /\ UNCHANGED othervars

\* res = env.run(["uv", "pip", "install"] + opt), then the with block ends
ForkInstall ==
    /\ pc = "fork_install"
    /\ \E rc \in ExitCodes :
         /\ pc' = "idle"
         /\ tmpfile' = tmpfile_after_with(FALSE)
         /\ last' = [last EXCEPT !.res = IF rc = 0 THEN "handle" ELSE "UVError",
                                 !.cause = "pip_install", !.rc = rc]
    /\ UNCHANGED <<fs, ctime, scenario, forkEnv>>
    /\ UNCHANGED xvars
    /\ UNCHANGED othervars

(***************************************************************************)
(* Text.  A text is a sequence of tokens, each token a fixed piece of the  *)
(* string; the text is their concatenation.  "\n" is always a token of its *)
(* own, and so are the pieces the code searches for or replaces.           *)
(***************************************************************************)
NL == "\n"
HS == "# "
TS == "///"
SC == " script"
SB == "#!"
W == "x"

ScriptTokens == {NL, HS, TS, SC, SB, W}

MaxScriptLen == 2
MaxPkgs == 1
MaxExports == 2

InitialTexts == UNION {[1..m -> ScriptTokens] : m \in 0..MaxScriptLen}

\* index of the first x in t at or after i, 0 when there is none
IndexFrom(t, x, i) ==
    IF \E j \in i..Len(t) : t[j] = x
    THEN CHOOSE j \in i..Len(t) : t[j] = x /\ \A k \in i..(j - 1) : t[k] # x
    ELSE 0

StartsWithAt(t, i, p) ==
    /\ i + Len(p) - 1 <= Len(t)
    /\ \A k \in 1..Len(p) : t[i + k - 1] = p[k]

\* str.replace(old, new) for a one-token old
RECURSIVE replace(_, _, _)
replace(t, old, new) ==
    IF t = << >> THEN << >>
    ELSE (IF Head(t) = old THEN new ELSE <<Head(t)>>) \o replace(Tail(t), old, new)

\* str.strip(): the tokens that are whitespace only are the newlines
RECURSIVE strip(_)
strip(t) ==
    IF t = << >> THEN t
    ELSE IF Head(t) = NL THEN strip(Tail(t))
    ELSE IF t[Len(t)] = NL THEN strip(SubSeq(t, 1, Len(t) - 1))
    ELSE t

\* str.splitlines()
RECURSIVE splitlines(_)
splitlines(t) ==
    IF t = << >> THEN << >>
    ELSE LET k == IndexFrom(t, NL, 1)
         IN IF k = 0 THEN <<t>>
            ELSE <<SubSeq(t, 1, k - 1)>> \o splitlines(SubSeq(t, k + 1, Len(t)))

\* sep.join(lines)
RECURSIVE join(_, _)
join(lines, sep) ==
    IF lines = << >> THEN << >>
    ELSE IF Len(lines) = 1 THEN lines[1]
    ELSE lines[1] \o sep \o join(Tail(lines), sep)

(***************************************************************************)
(* The exported environment: a valid handle with pkgs installed packages.  *)
(***************************************************************************)
FullVersion == "cpython-3.12.1-linux-x86_64-gnu"
VersionSegment == "3.12.1"
Version == "3.12.1"
EnvName == "env"

PkgName(i) == "p" \o ToString(i)

\* stdout of "uv pip freeze"
RECURSIVE pip_freeze(_)
pip_freeze(n) ==
    IF n = 0 THEN << >> ELSE pip_freeze(n - 1) \o <<PkgName(n), "==", "1.0", NL>>

\* stdout of "uv pip tree -d 0"
RECURSIVE pip_tree(_)
pip_tree(n) ==
    IF n = 0 THEN << >> ELSE pip_tree(n - 1) \o <<PkgName(n), " v", "1.0", NL>>

\* a listing whose top-level tree output is passed on as printed
get_requirements_raw_tree(full, exact) ==
    LET stdout == IF full THEN pip_freeze(pkgs) ELSE pip_tree(pkgs)
        req == IF full /\ ~exact THEN replace(stdout, "==", <<">=">>) ELSE stdout
    IN strip(<<HS, FullVersion, NL>> \o req)

\* UVN.get_requirements when the listing exits zero
get_requirements(full, exact) ==
    LET stdout == IF full THEN pip_freeze(pkgs) ELSE pip_tree(pkgs)
        req == IF ~full THEN replace(stdout, " v", IF exact THEN <<"==">> ELSE <<">=">>)
               ELSE IF ~exact THEN replace(stdout, "==", <<">=">>)
               ELSE stdout
    IN strip(<<HS, FullVersion, NL>> \o req)

\* UVN.get_dependencies
get_dependencies(full, exact) ==
    LET req == splitlines(get_requirements(full, exact))
        items == [i \in 1..(Len(req) - 1) |-> <<"    \"">> \o req[i + 1] \o <<"\",">>]
        dep0 == join(items, <<NL>>)
        dep == IF dep0 # << >>
               THEN <<NL, "dependencies = [", NL>> \o dep0 \o <<NL, "]">>
               ELSE << >>
        ver == IF exact THEN <<"==", VersionSegment>> ELSE <<">=", Version>>
    IN <<"requires-python = \"">> \o ver \o <<"\" ">> \o req[1] \o dep

\* end of the block "(# .*\n)*?# ///\n" scanning the lines from q: the index of the
\* newline that ends the first "# ///" line, 0 when a line does not fit
RECURSIVE block_end(_, _)
block_end(t, q) ==
    IF StartsWithAt(t, q, <<HS, TS, NL>>) THEN q + 2
    ELSE IF q <= Len(t) /\ t[q] = HS /\ IndexFrom(t, NL, q + 1) # 0
         THEN block_end(t, IndexFrom(t, NL, q + 1) + 1)
    ELSE 0

\* start of "# /// script\n" after the optional "(?:#!.*\n)?" at the start of t
block_start(t) ==
    IF t # << >> /\ t[1] = SB
    THEN IF IndexFrom(t, NL, 2) # 0 THEN IndexFrom(t, NL, 2) + 1 ELSE 0
    ELSE 1

\* re.sub("^(?:#!.*\n)?# /// script\n(# .*\n)*?# ///\n", "\n", text)
sub_block(t) ==
    LET p == block_start(t)
        e == IF p # 0 /\ StartsWithAt(t, p, <<HS, TS, SC, NL>>)
             THEN block_end(t, p + 4) ELSE 0
    IN IF e = 0 THEN t ELSE <<NL>> \o SubSeq(t, e + 1, Len(t))

\* UVN.get_script_metadata when the listing exits zero
get_script_metadata(text, full, exact) ==
    LET t == IF text # << >> THEN sub_block(text) ELSE text
        dep == replace(get_dependencies(full, exact), NL, <<NL, HS>>)
    IN <<SB, "/usr/bin/env -S uv run", NL, HS, TS, SC, NL, HS>> \o dep
         \o <<NL, HS, TS>> \o t

\* UVN.get_pyproject when text is empty and the listing exits zero
get_pyproject(full, exact) ==
    <<"[project]", NL, "name = \"" \o EnvName \o "\"", NL, "dynamic = [\"version\"]", NL>>
        \o get_dependencies(full, exact)

LockText == <<"version = 1", NL>>

(***************************************************************************)
(* UVN.export                                                              *)
(***************************************************************************)
Suffixes == {".txt", ".toml", ".lock", ".py", ".md", ""}

Flags == {"None", "True", "False"}

\* a keyword is passed on only when it is not None; else the method's default holds
kw(flag, default) == IF flag = "None" THEN default ELSE flag = "True"

\* a chain whose else branch falls back to the requirements
export_method_fallback(suffix) ==
    CASE suffix = ".toml" -> "get_pyproject"
      [] suffix = ".lock" -> "get_lock"
      [] suffix = ".py" -> "get_script_metadata"
      [] OTHER -> "get_requirements"

\* the if/elif chain over target.suffix
export_method(suffix) ==
    CASE suffix = ".txt" -> "get_requirements"
      [] suffix = ".toml" -> "get_pyproject"
      [] suffix = ".lock" -> "get_lock"
      [] suffix = ".py" -> "get_script_metadata"
      [] OTHER -> "none"

\* text = target.read_text() if target.exists() else ""
read_existing(tg) == IF tg.exists THEN tg.text ELSE << >>

\* whether the method reaches "uv pip freeze" / "uv pip tree"
lists_packages(m, text) ==
    \/ m \in {"get_requirements", "get_script_metadata"}
    \/ m = "get_pyproject" /\ text = << >>

\* an export that overwrites an existing manifest instead of refusing
export_raises_overwrites(m, text, rc) ==
    IF m = "none" THEN "FeatureError"
    ELSE IF rc # 0 THEN "UVError"
    ELSE "none"

\* the exception that leaves export() before target.write_text, "none" when none does
export_raises(m, text, rc) ==
    IF m = "none" THEN "FeatureError"
    ELSE IF m = "get_pyproject" /\ text # << >> THEN "FeatureError"
    ELSE IF rc # 0 THEN "UVError"
    ELSE "none"

export_text(m, text, full, exact) ==
    CASE m = "get_requirements" -> get_requirements(kw(full, TRUE), kw(exact, TRUE))
      [] m = "get_pyproject" -> get_pyproject(kw(full, FALSE), kw(exact, TRUE))
      [] m = "get_script_metadata" ->
             get_script_metadata(text, kw(full, FALSE), kw(exact, TRUE))
      [] OTHER -> << >>

XOutcome(op, m, res, cause, rc, pre, text) ==
    [op |-> op, method |-> m, res |-> res, cause |-> cause, rc |-> rc, pre |-> pre,
     text |-> text]

Export(full, exact) ==
    /\ xpc = "idle"
    /\ nexports < MaxExports
    /\ export_method(target.suffix) # "get_lock"
    /\ \E code \in ExitCodes :
         LET m == export_method(target.suffix)
             text == IF m \in {"get_pyproject", "get_script_metadata"}
                     THEN read_existing(target) ELSE << >>
             rc == IF lists_packages(m, text) THEN code ELSE 0
             raised == export_raises(m, text, rc)
             new == export_text(m, text, full, exact)
         IN IF raised = "none"
            THEN /\ target' = [target EXCEPT !.exists = TRUE, !.text = new]
                 /\ xlast' = XOutcome("export", m, "True", "none", rc, target, new)
            ELSE /\ target' = target
                 /\ xlast' = XOutcome("export", m, raised, "none", rc, target, << >>)
    /\ nexports' = nexports + 1
    /\ UNCHANGED <<pkgs, tmpdir, xpc, caller>>
    /\ UNCHANGED envvars
    /\ UNCHANGED othervars

(***************************************************************************)
(* UVN.get_lock, in three steps: enter the TemporaryDirectory; build and   *)
(* write the manifest; run the resolver and leave the with block.          *)
(***************************************************************************)
NoTmpDir == [exists |-> FALSE, files |-> {}]

\* cleanup that runs only when the block is left normally
tmpdir_after_with_leaks(d, raised) == IF raised THEN d ELSE NoTmpDir

\* leaving "with tempfile.TemporaryDirectory() as directory": the directory and
\* its contents are removed, whether the block is left normally or by an exception
tmpdir_after_with(d, raised) == NoTmpDir

GetLockEnter(c) ==
    /\ xpc = "idle"
    /\ c = "export" => (export_method(target.suffix) = "get_lock" /\ nexports < MaxExports)
    /\ xpc' = "lock_manifest"
    /\ caller' = c
    /\ tmpdir' = [exists |-> TRUE, files |-> {}]
    /\ nexports' = IF c = "export" THEN nexports + 1 ELSE nexports
    /\ xlast' = XOutcome(IF c = "export" THEN "export" ELSE "get_lock", "get_lock",
                         "running", "none", 0, target, << >>)
    /\ UNCHANGED <<pkgs, target>>
    /\ UNCHANGED envvars
    /\ UNCHANGED othervars

\* pyproject = self.get_pyproject(full=True, exact=True); write it
GetLockManifest ==
    /\ xpc = "lock_manifest"
    /\ \E rc \in ExitCodes :
         IF rc # 0
         THEN /\ xpc' = "idle"
              /\ tmpdir' = tmpdir_after_with(tmpdir, TRUE)
              /\ xlast' = [xlast EXCEPT !.res = "UVError", !.cause = "pip", !.rc = rc]
         ELSE /\ xpc' = "lock_run"
              /\ tmpdir' = [tmpdir EXCEPT !.files = @ \cup {"pyproject.toml"}]
              /\ xlast' = xlast
    /\ UNCHANGED <<pkgs, target, caller, nexports>>
    /\ UNCHANGED envvars
    /\ UNCHANGED othervars

\* what get_lock returns or raises after the resolver exited with rc
get_lock_result(rc, files) ==
    IF rc = 0
    THEN IF "uv.lock" \in files THEN "returned" ELSE "FileNotFoundError"
    ELSE "UVError"

\* res = run(["uv", "lock"] + opt); read uv.lock when it exited zero
GetLockRun ==
    /\ xpc = "lock_run"
    /\ \E rc \in ExitCodes, wrote \in BOOLEAN :
         LET files == tmpdir.files \cup (IF wrote THEN {"uv.lock"} ELSE {})
             res == get_lock_result(rc, files)
             text == IF res = "returned" THEN LockText ELSE << >>
         IN /\ tmpdir' = tmpdir_after_with([tmpdir EXCEPT !.files = files],
                                           res = "FileNotFoundError")
            /\ IF caller = "export" /\ res = "returned"
               THEN /\ target' = [target EXCEPT !.exists = TRUE, !.text = text]
                    /\ xlast' = [xlast EXCEPT !.res = "True", !.cause = "resolver",
                                              !.rc = rc, !.text = text]
               ELSE /\ target' = target
                    /\ xlast' = [xlast EXCEPT !.res = res, !.cause = "resolver",
                                              !.rc = rc, !.text = text]
    /\ xpc' = "idle"
    /\ UNCHANGED <<pkgs, caller, nexports>>
    /\ UNCHANGED envvars
    /\ UNCHANGED othervars

(***************************************************************************)
(* The full version of a handle and the properties sliced from it.  The    *)
(* string is a sequence of tokens: "-" and pieces that hold no dash.       *)
(***************************************************************************)
DASH == "-"
MARKER == "freethreaded"

MaxFieldLen == 1

FieldTokens == {"a", MARKER}

FieldValues == UNION {[1..m -> FieldTokens] : m \in 1..MaxFieldLen}

\* UVN.full_version: the directory name impl-ver-sys-mach-libc of the link target
full_version == join(fields, <<DASH>>)

LastIndex(t, x) ==
    IF \E j \in 1..Len(t) : t[j] = x
    THEN CHOOSE j \in 1..Len(t) : t[j] = x /\ \A k \in (j + 1)..Len(t) : t[k] # x
    ELSE 0

\* str.split(sep, maxsplit)
RECURSIVE split(_, _, _)
split(t, sep, maxsplit) ==
    LET i == IndexFrom(t, sep, 1)
    IN IF maxsplit = 0 \/ i = 0 THEN <<t>>
       ELSE <<SubSeq(t, 1, i - 1)>> \o split(SubSeq(t, i + 1, Len(t)), sep, maxsplit - 1)

\* str.rsplit(sep, maxsplit)
RECURSIVE rsplit(_, _, _)
rsplit(t, sep, maxsplit) ==
    LET i == LastIndex(t, sep)
    IN IF maxsplit = 0 \/ i = 0 THEN <<t>>
       ELSE rsplit(SubSeq(t, 1, i - 1), sep, maxsplit - 1) \o <<SubSeq(t, i + 1, Len(t))>>

\* "freethreaded" in text: no other token holds a part of the marker
contains_marker(t) == \E i \in 1..Len(t) : t[i] = MARKER

implementation == split(full_version, DASH, 1)[1]

version_segment == split(full_version, DASH, 2)[2]

is_free_threaded == contains_marker(full_version)

system == split(full_version, DASH, 3)[3]

\* a machine field counted from the left
machine_from_left == split(full_version, DASH, 3)[4]

machine == rsplit(full_version, DASH, 2)[2]

libc == rsplit(full_version, DASH, 1)[2]

PropertyNames ==
    {"implementation", "version_segment", "is_free_threaded", "system", "machine", "libc"}

property_value(name) ==
    CASE name = "implementation" -> implementation
      [] name = "version_segment" -> version_segment
      [] name = "is_free_threaded" -> is_free_threaded
      [] name = "system" -> system
      [] name = "machine" -> machine
      [] OTHER -> libc

ReadProperty(name) ==
    /\ props' = [prop |-> name, value |-> property_value(name)]
    /\ UNCHANGED <<fields, cli>>
    /\ UNCHANGED <<envvars, xvars>>

(***************************************************************************)
(* The commands of the CLI (cli.py).  A command calls the core, catches    *)
(* some of its exceptions and ends the process: typer.Exit(1) gives exit   *)
(* code 1, a normal return gives 0, and an exception nobody catches ends   *)
(* the interpreter with a traceback and exit code 1.                       *)
(***************************************************************************)
\* the classes derived from UVN.Error
IsUVNError(r) ==
    r \in {"MissingError", "CorruptedError", "ExistsError", "UVError", "FeatureError"}

NoError(r) == r \in {"none", "handle", "returned", "True", "False"}

CliOutcome(cmd, n, force, shell, pre, err, code) ==
    [cmd |-> cmd, name |-> n, force |-> force, shell |-> shell, pre |-> pre,
     err |-> IF NoError(err) THEN "none" ELSE err, exit |-> code]

CliFrame ==
    UNCHANGED <<last, scenario, pc, tmpfile, forkEnv, pkgs, tmpdir, xpc, caller,
                nexports, xlast>>

\* one process runs one command: main() dispatches a single command and the
\* interpreter exits
Fresh == cli.cmd = "none"

\* exit code of the interpreter when the command let exception r out
uncaught(r) == IF NoError(r) THEN 0 ELSE 1

\* cli.list_envs: no try, and UVN.list raises nothing of the core's
list_exit(r) == uncaught(r)

\* cli.create: except UVN.ExistsError -> typer.Exit(1)
create_exit(r) == IF r = "ExistsError" THEN 1 ELSE uncaught(r)

\* cli.remove: MissingError and CorruptedError are caught, then
\* "if not (removed or force): raise typer.Exit(1)"
remove_exit(r, force) ==
    IF r \in {"MissingError", "CorruptedError", "True", "False"}
    THEN IF ~(r = "True" \/ force) THEN 1 ELSE 0
    ELSE uncaught(r)

\* cli.export: except UVN.Error around the constructor only
export_exit(r_new, r) ==
    IF IsUVNError(r_new) THEN 1
    ELSE IF ~NoError(r_new) THEN uncaught(r_new)
    ELSE uncaught(r)

\* cli.fork: except UVN.Error around the constructor and around env.fork
fork_exit(r_new, r) ==
    IF IsUVNError(r_new) THEN 1
    ELSE IF ~NoError(r_new) THEN uncaught(r_new)
    ELSE IF IsUVNError(r) THEN 1
    ELSE uncaught(r)

\* cli.activate: an unknown shell raises typer.Exit(1); "except UVN.Error" prints
\* a message (unless quiet) and returns
activate_exit(shell_known, r) ==
    IF ~shell_known THEN 1
    ELSE IF IsUVNError(r) THEN 0
    ELSE uncaught(r)

CmdList ==
    /\ Fresh
    /\ \E order \in IterOrders :
         cli' = CliOutcome("list", 0, FALSE, TRUE, "absent", list_result(order),
                           list_exit(list_result(order)))
    /\ UNCHANGED <<fs, ctime, target, fields, props>>
    /\ CliFrame

CmdCreate(n) ==
    /\ Fresh
    /\ \E outcome \in ToolOutcomes, t \in Times :
         LET r == Construct(fs[n])
             e2 == create_entry(fs[n], outcome)
             res == create_result(r, e2)
         IN /\ fs' = [fs EXCEPT ![n] = e2]
            /\ ctime' = new_ctime(n, e2, t)
            /\ cli' = CliOutcome("create", n, FALSE, TRUE, fs[n], res, create_exit(res))
    /\ UNCHANGED <<target, fields, props>>
    /\ CliFrame

CmdRemove(n, force) ==
    /\ Fresh
    /\ LET e2 == remove_entry(fs[n], ~force)
           res == remove_result(fs[n], ~force)
       IN /\ fs' = [fs EXCEPT ![n] = e2]
          /\ ctime' = new_ctime(n, e2, 0)
          /\ cli' = CliOutcome("remove", n, force, TRUE, fs[n], res,
                               remove_exit(res, force))
    /\ UNCHANGED <<target, fields, props>>
    /\ CliFrame

\* what the export methods raise on a valid handle: the listing exits with rc,
\* the resolver with lockrc
method_raises(m, text, rc, lockrc) ==
    IF m = "get_lock"
    THEN IF rc # 0 \/ lockrc # 0 THEN "UVError" ELSE "none"
    ELSE export_raises(m, text, rc)

BareTargets == {"txt", "toml", "py", "lock"}

bare_method(word) ==
    CASE word = "txt" -> "get_requirements"
      [] word = "toml" -> "get_pyproject"
      [] word = "py" -> "get_script_metadata"
      [] OTHER -> "get_lock"

\* export NAME TARGET: TARGET is one of the bare words (the text is printed) or
\* the path held in target (env.export writes it)
CmdExport(n, word) ==
    /\ Fresh
    /\ \E rc \in ExitCodes, lockrc \in ExitCodes, full, exact \in BOOLEAN :
         LET r_new == Construct(fs[n])
             bare == word \in BareTargets
             m == IF bare THEN bare_method(word) ELSE export_method(target.suffix)
             text == IF ~bare /\ m \in {"get_pyproject", "get_script_metadata"}
                     THEN read_existing(target) ELSE << >>
             r == IF r_new = "handle" THEN method_raises(m, text, rc, lockrc) ELSE "none"
             new == IF m = "get_lock" THEN LockText
                    ELSE export_text(m, text, IF full THEN "True" ELSE "False",
                                     IF exact THEN "True" ELSE "False")
         IN /\ target' = IF r_new = "handle" /\ ~bare /\ r = "none"
                         THEN [target EXCEPT !.exists = TRUE, !.text = new]
                         ELSE target
            /\ cli' = CliOutcome("export", n, FALSE, TRUE, fs[n],
                                 IF r_new = "handle" THEN r ELSE r_new,
                                 export_exit(r_new, r))
    /\ UNCHANGED <<fs, ctime, fields, props>>
    /\ CliFrame

\* what env.fork returns or raises: create, then the listing, then the install
fork_result(res_create, rc_freeze, rc_install) ==
    IF res_create # "handle" THEN res_create
    ELSE IF rc_freeze # 0 \/ rc_install # 0 THEN "UVError"
    ELSE "handle"

CmdFork(self, n) ==
    /\ Fresh
    /\ \E outcome \in ToolOutcomes, t \in Times, rc1 \in ExitCodes, rc2 \in ExitCodes :
         LET r_new == Construct(fs[self])
             e2 == IF r_new = "handle" THEN create_entry(fs[n], outcome) ELSE fs[n]
             r == IF r_new = "handle"
                  THEN fork_result(create_result(Construct(fs[n]), e2), rc1, rc2)
                  ELSE "none"
         IN /\ fs' = [fs EXCEPT ![n] = e2]
            /\ ctime' = new_ctime(n, e2, t)
            /\ cli' = CliOutcome("fork", n, FALSE, TRUE, fs[self],
                                 IF r_new = "handle" THEN r ELSE r_new,
                                 fork_exit(r_new, r))
    /\ UNCHANGED <<target, fields, props>>
    /\ CliFrame

CmdActivate(n, shell_known) ==
    /\ Fresh
    /\ LET r == IF shell_known THEN Construct(fs[n]) ELSE "none"
       IN cli' = CliOutcome("activate", n, FALSE, shell_known, fs[n], r,
                            activate_exit(shell_known, r))
    /\ UNCHANGED <<fs, ctime, target, fields, props>>
    /\ CliFrame

(***************************************************************************)
(* The specifications.  Spec: the environments under one root, with no     *)
(* export running.  SpecExport: the export operations on one valid         *)
(* environment, with nothing else happening under the root.                *)
(***************************************************************************)
EnvIdle ==
    /\ last = Outcome("none", 0, FALSE, "none", "none", FALSE, 0, "absent", NoOut)
    /\ scenario = 0
    /\ pc = "idle"
    /\ tmpfile = FALSE
    /\ forkEnv = 0

XIdle ==
    /\ tmpdir = NoTmpDir
    /\ xpc = "idle"
    /\ caller = "api"
    /\ nexports = 0
    /\ xlast = XOutcome("none", "none", "none", "none", 0,
                        [suffix |-> "", exists |-> FALSE, text |-> << >>], << >>)

OtherIdle ==
    /\ fields = [i \in 1..5 |-> <<"a">>]
    /\ props = [prop |-> "none", value |-> FALSE]
    /\ cli = CliOutcome("none", 0, FALSE, TRUE, "absent", "none", 0)

Init ==
    /\ fs \in [Names -> EntryStates]
    /\ ctime \in [Names -> Times \cup {0}]
    /\ \A n \in Names : ctime[n] = 0 <=> ~is_dir(fs[n])
    /\ EnvIdle
    /\ pkgs = 0
    /\ target = [suffix |-> "", exists |-> FALSE, text |-> << >>]
    /\ XIdle
    /\ OtherIdle

Next ==
    \/ \E n \in Names : Create(n)
    \/ \E n \in Names : New(n)
    \/ \E n \in Names, strict \in BOOLEAN : Remove(n, strict)
    \/ List
    \/ CliList
    \/ \E self, n \in Names : ForkCreate(self, n)
    \/ ForkFreeze
    \/ ForkInstall

Spec == Init /\ [][Next]_vars

InitExport ==
    /\ fs = [n \in Names |-> "ok"]
    /\ ctime = [n \in Names |-> 1]
    /\ EnvIdle
    /\ pkgs \in 0..MaxPkgs
    /\ target \in [suffix : Suffixes, exists : BOOLEAN, text : InitialTexts]
    /\ ~target.exists => target.text = << >>
    /\ XIdle
    /\ OtherIdle

NextExport ==
    \/ \E full, exact \in Flags : Export(full, exact)
    \/ \E c \in {"api", "export"} : GetLockEnter(c)
    \/ GetLockManifest
    \/ GetLockRun

SpecExport == InitExport /\ [][NextExport]_vars

InitVersion ==
    /\ fs = [n \in Names |-> "ok"]
    /\ ctime = [n \in Names |-> 1]
    /\ EnvIdle
    /\ pkgs = 0
    /\ target = [suffix |-> "", exists |-> FALSE, text |-> << >>]
    /\ XIdle
    /\ fields \in [1..5 -> FieldValues]
    /\ props = [prop |-> "none", value |-> FALSE]
    /\ cli = CliOutcome("none", 0, FALSE, TRUE, "absent", "none", 0)

NextVersion == \E name \in PropertyNames : ReadProperty(name)

SpecVersion == InitVersion /\ [][NextVersion]_vars

InitCli ==
    /\ fs \in [Names -> EntryStates]
    /\ ctime = [n \in Names |-> IF is_dir(fs[n]) THEN 1 ELSE 0]
    /\ EnvIdle
    /\ pkgs = 0
    /\ target \in [suffix : Suffixes, exists : BOOLEAN, text : {<< >>, <<W>>}]
    /\ ~target.exists => target.text = << >>
    /\ XIdle
    /\ OtherIdle

NextCli ==
    \/ CmdList
    \/ \E n \in Names : CmdCreate(n)
    \/ \E n \in Names, force \in BOOLEAN : CmdRemove(n, force)
    \/ \E n \in Names, word \in BareTargets \cup {"path"} : CmdExport(n, word)
    \/ \E self, n \in Names : CmdFork(self, n)
    \/ \E n \in Names, shell_known \in BOOLEAN : CmdActivate(n, shell_known)

SpecCli == InitCli /\ [][NextCli]_vars


(***************************************************************************)
(* Properties of the environments under one root (specification Spec).     *)
(***************************************************************************)
Count(s, x) == Cardinality({i \in 1..Len(s) : s[i] = x})

IndexIn(s, x) == CHOOSE i \in 1..Len(s) : s[i] = x

\* C1: after a Create(n) that found no environment and returned a handle, an
\* immediately following Create(n) fails with ExistsError, a following strict
\* Remove(n) returns true and deletes the path, and a further
\* Remove(n, strict=false) returns false without raising.
C1_CreateCreateRemoveRemove ==
    /\ scenario = 2 => last.op = "create" /\ last.res = "ExistsError"
    /\ scenario = 3 => last.op = "remove" /\ last.res = "True"
                        /\ fs[last.name] = "absent"
    /\ scenario = 4 => last.op = "remove" /\ last.res = "False"
                        /\ fs[last.name] = "absent"

C1_Witness == scenario = 4 /\ last.op = "remove" /\ ~last.strict

\* C4: once fork() has created its temporary requirements file, the file is gone
\* whenever fork() has returned or raised (install exit zero, install exit
\* non-zero, or UVError from get_requirements), and a non-zero install exit
\* always ends in UVError.
C4_ForkTempFileRemoved ==
    /\ pc = "idle" => ~tmpfile
    /\ pc # "idle" => tmpfile
    /\ (last.op = "fork" /\ last.cause = "pip_install" /\ last.rc # 0)
          => last.res = "UVError"
    /\ (last.op = "fork" /\ last.cause = "pip_freeze") => last.res = "UVError"

C4_Witness ==
    /\ pc = "idle" /\ ~tmpfile
    /\ last.op = "fork" /\ last.cause = "pip_install" /\ last.rc = 1
    /\ last.res = "UVError"

\* C5: List returns exactly one handle for each immediate subdirectory of root
\* whose construction succeeds and none for any other entry, and it does not
\* raise because of an entry whose construction fails.
C5_ListSkipsInvalid ==
    last.op = "list" =>
        /\ last.res = "returned"
        /\ \A n \in Names :
             Count(last.out[2], n) =
                 IF is_dir(fs[n]) /\ Construct(fs[n]) = "handle" THEN 1 ELSE 0

C5_Witness ==
    /\ last.op = "list" /\ last.res = "returned"
    /\ Len(last.out[2]) = 1
    /\ \E n \in Names : fs[n] = "nopy"
    /\ \E n \in Names : fs[n] = "ok"

SortedByCtime(s) == \A i, j \in 1..Len(s) : i < j => ctime[s[i]] <= ctime[s[j]]

SortedByName(s) == \A i, j \in 1..Len(s) : i < j => s[i] < s[j]

InIterationOrder(order, s) ==
    \A i, j \in 1..Len(s) : i < j => IndexIn(order, s[i]) < IndexIn(order, s[j])

\* C6 as stated: the sequence List returns is sorted by creation time ascending
\* for every directory iteration order, and the CLI list command shows the
\* environments sorted by name.
C6_Original ==
    /\ last.op = "list" => SortedByCtime(last.out[2])
    /\ last.op = "cli_list" => SortedByName(last.out[2])

\* C6 amended: List returns the handles in directory iteration order, unsorted;
\* the CLI list command sorts what List returned with the handles' own ordering,
\* so it shows them by st_ctime of their paths ascending (not by name), equal
\* times staying in iteration order.
C6_ListOrder ==
    /\ last.op = "list" => InIterationOrder(last.out[1], last.out[2])
    /\ last.op = "cli_list" =>
          /\ SortedByCtime(last.out[2])
          /\ \A n \in Names : Count(last.out[2], n) = Count(list(last.out[1]), n)
          /\ \A i, j \in 1..Len(last.out[2]) :
                (i < j /\ ctime[last.out[2][i]] = ctime[last.out[2][j]])
                    => IndexIn(last.out[1], last.out[2][i])
                         < IndexIn(last.out[1], last.out[2][j])

C6_Witness ==
    /\ last.op = "cli_list"
    /\ Len(last.out[2]) >= 2
    /\ last.out[2] # list(last.out[1])
    /\ ~SortedByName(last.out[2])

\* C7: Construct(path) has exactly three outcomes: MissingError when nothing is
\* at the interpreter location, CorruptedError when the interpreter exists but
\* exits non-zero or cannot be invoked, a handle otherwise.
C7_ConstructOutcomes ==
    last.op = "construct" =>
        last.res = IF ~python_exists(last.pre) THEN "MissingError"
                   ELSE IF last.pre = "ok" THEN "handle"
                   ELSE "CorruptedError"

\* C8: strict Remove on a missing or corrupted environment raises MissingError /
\* CorruptedError and leaves the path as it was; Remove with strict=false deletes
\* the path whenever it exists and returns true, and returns false leaving
\* everything unchanged when it does not exist; Remove returns true iff a
\* deletion occurred.
C8_RemovePolicy ==
    last.op = "remove" =>
        /\ (last.strict /\ ~python_exists(last.pre))
              => last.res = "MissingError" /\ fs[last.name] = last.pre
        /\ (last.strict /\ last.pre \in {"bad", "noexec"})
              => last.res = "CorruptedError" /\ fs[last.name] = last.pre
        /\ (~last.strict /\ path_exists(last.pre))
              => last.res = "True" /\ fs[last.name] = "absent"
        /\ (~last.strict /\ ~path_exists(last.pre))
              => last.res = "False" /\ fs[last.name] = last.pre
        /\ last.res = "True" <=> (path_exists(last.pre) /\ fs[last.name] = "absent")

\* C9: Create fails with ExistsError whenever root/name already holds an
\* environment, valid or corrupted (the corrupted one with CorruptedError as the
\* cause), without invoking the venv tool and leaving the directory unchanged;
\* the tool is invoked only after MissingError and its result is re-validated.
C9_CreateExists ==
    last.op = "create" =>
        /\ last.pre = "ok"
              => /\ last.res = "ExistsError" /\ last.cause = "none"
                 /\ ~last.tool /\ fs[last.name] = last.pre
        /\ last.pre \in {"bad", "noexec"}
              => /\ last.res = "ExistsError" /\ last.cause = "CorruptedError"
                 /\ ~last.tool /\ fs[last.name] = last.pre
        /\ last.tool
              => /\ Construct(last.pre) = "MissingError"
                 /\ last.res = Construct(fs[last.name])

(***************************************************************************)
(* Properties of the export engine (specification SpecExport).             *)
(***************************************************************************)
\* number of lines of t that are exactly "# /// script"
OpenCount(t) ==
    Cardinality({i \in 1..Len(t) :
                    /\ i = 1 \/ t[i - 1] = NL
                    /\ StartsWithAt(t, i, <<HS, TS, SC, NL>>)})

\* the script body of t: what follows its metadata block, or all of t without one
ScriptBody(t) == IF sub_block(t) # t THEN Tail(sub_block(t)) ELSE t

EndsWith(t, b) == Len(b) <= Len(t) /\ SubSeq(t, Len(t) - Len(b) + 1, Len(t)) = b

\* C2: GetScriptMetadata is idempotent for every script text (empty, body only,
\* or already carrying a block): applied with the same flags to the text an
\* export just wrote, it returns that text again, which holds exactly one
\* "# /// script" block followed by the unchanged script body.
C2_ScriptMetadataIdempotent ==
    (xlast.op = "export" /\ xlast.method = "get_script_metadata" /\ xlast.res = "True") =>
        \A full, exact \in BOOLEAN :
            LET t == read_existing(xlast.pre)
                t1 == target.text
                t2 == get_script_metadata(t1, full, exact)
            IN get_script_metadata(t, full, exact) = t1 =>
                   /\ t2 = t1
                   /\ OpenCount(t2) = 1
                   /\ EndsWith(t1, ScriptBody(t))

\* C3: when get_lock has returned or raised (resolver exit zero, resolver exit
\* non-zero, or UVError while building the manifest) its temporary directory
\* and the files in it are gone, and lock text is returned only when the
\* resolver exited zero.
C3_LockTempDirRemoved ==
    /\ xpc = "idle" => tmpdir = NoTmpDir
    /\ xpc # "idle" => tmpdir.exists
    /\ (xpc = "idle" /\ xlast.method = "get_lock") =>
          /\ xlast.text # << >> => (xlast.cause = "resolver" /\ xlast.rc = 0)
          /\ (xlast.cause = "resolver" /\ xlast.rc # 0) => xlast.res = "UVError"
          /\ xlast.cause = "pip" => xlast.res = "UVError"
          /\ xlast.res \in {"returned", "True"} <=> xlast.text = LockText

C3_Witness ==
    /\ xpc = "idle" /\ ~tmpdir.exists
    /\ xlast.op = "get_lock" /\ xlast.cause = "resolver" /\ xlast.rc = 1
    /\ xlast.res = "UVError" /\ xlast.text = << >>

\* C10: Export dispatches on the suffix of the target alone: .txt to the
\* requirements, .toml to the manifest, .lock to the lock file, .py to the script
\* metadata; for any other suffix, or none, it raises FeatureError and the
\* target is neither created nor modified.
C10_ExportDispatch ==
    (xpc = "idle" /\ xlast.op = "export") =>
        /\ xlast.pre.suffix = ".txt" => xlast.method = "get_requirements"
        /\ xlast.pre.suffix = ".toml" => xlast.method = "get_pyproject"
        /\ xlast.pre.suffix = ".lock" => xlast.method = "get_lock"
        /\ xlast.pre.suffix = ".py" => xlast.method = "get_script_metadata"
        /\ xlast.res = "True" =>
              /\ target.exists
              /\ target.text = xlast.text
              /\ Head(target.text) =
                    CASE xlast.pre.suffix = ".txt" -> HS
                      [] xlast.pre.suffix = ".toml" -> "[project]"
                      [] xlast.pre.suffix = ".lock" -> Head(LockText)
                      [] xlast.pre.suffix = ".py" -> SB
                      [] OTHER -> ""
        /\ xlast.pre.suffix \notin {".txt", ".toml", ".lock", ".py"} =>
              /\ xlast.res = "FeatureError"
              /\ target = xlast.pre

C10_Witness ==
    /\ xlast.op = "export" /\ xlast.res = "FeatureError"
    /\ xlast.pre.suffix = ".md" /\ xlast.pre.exists
    /\ target = xlast.pre

\* C11: Export to a .toml target that exists with non-empty content raises
\* FeatureError and leaves the content unchanged; to a .toml target that is
\* absent or empty it writes the generated manifest (when the package listing
\* exits zero; UVError and nothing written otherwise).  FeatureError is raised
\* iff the existing text is non-empty.
C11_TomlNotMerged ==
    (xlast.op = "export" /\ xlast.pre.suffix = ".toml") =>
        LET old == read_existing(xlast.pre)
        IN /\ xlast.res = "FeatureError" <=> old # << >>
           /\ old # << >> => target = xlast.pre
           /\ (old = << >> /\ xlast.rc = 0) =>
                 /\ xlast.res = "True"
                 /\ target.exists
                 /\ \E full, exact \in BOOLEAN : target.text = get_pyproject(full, exact)
           /\ (old = << >> /\ xlast.rc # 0) =>
                 /\ xlast.res = "UVError"
                 /\ target = xlast.pre

C11_Witness ==
    /\ xlast.op = "export" /\ xlast.pre.suffix = ".toml"
    /\ xlast.pre.exists /\ xlast.pre.text # << >>
    /\ xlast.res = "FeatureError"
    /\ target = xlast.pre

\* the text is "# <full_version>" followed by one requirement line per package,
\* each "name==version" when exact and "name>=version" when not
RequirementsText(t, exact) ==
    LET lines == splitlines(t)
    IN /\ Len(lines) = pkgs + 1
       /\ lines[1] = <<HS, FullVersion>>
       /\ \A i \in 1..pkgs :
            lines[i + 1] = <<PkgName(i), IF exact THEN "==" ELSE ">=", "1.0">>

\* C15: for full=true and full=false, when the package listing exits zero the
\* text Export writes to a .txt target has "# <full_version>" as its first line
\* and then one requirement per line, "name==version" when exact and
\* "name>=version" when not; when the listing exits non-zero UVError is raised
\* and nothing is written.
C15_RequirementsText ==
    (xlast.op = "export" /\ xlast.pre.suffix = ".txt") =>
        /\ xlast.rc = 0 =>
              /\ xlast.res = "True"
              /\ target.exists
              /\ \E exact \in BOOLEAN : RequirementsText(target.text, exact)
              /\ \A full, exact \in BOOLEAN :
                    target.text = get_requirements(full, exact)
                        => RequirementsText(target.text, exact)
        /\ xlast.rc # 0 =>
              /\ xlast.res = "UVError"
              /\ target = xlast.pre

C15_Witness ==
    /\ xlast.op = "export" /\ xlast.pre.suffix = ".txt" /\ xlast.res = "True"
    /\ pkgs >= 1
    /\ target.text = get_requirements(FALSE, FALSE)
    /\ RequirementsText(target.text, FALSE)

\* C16: Fork is not atomic.  When the new environment was created and the
\* install exits non-zero, Fork raises UVError and the new environment stays
\* on disk; a Fork to a name that holds a valid environment (so a retried Fork,
\* until that environment is removed) fails with ExistsError and starts
\* nothing; no step of Fork changes a valid environment, the source included.
C16_ForkNotAtomic ==
    [][last'.op = "fork" =>
          /\ \A m \in Names : fs[m] = "ok" => fs'[m] = "ok"
          /\ (pc = "fork_install" /\ last'.rc # 0) =>
                /\ last'.res = "UVError"
                /\ fs'[forkEnv] = "ok"
                /\ pc' = "idle"
          /\ last'.res = "UVError" => fs'[last'.name] = "ok"
          /\ (pc = "idle" /\ fs[last'.name] = "ok") =>
                /\ last'.res = "ExistsError"
                /\ pc' = "idle"
                /\ fs' = fs]_vars

C16_Witness ==
    /\ pc = "idle"
    /\ last.op = "fork" /\ last.res = "UVError" /\ last.cause = "pip_install"
    /\ last.tool /\ last.pre = "absent"
    /\ fs[last.name] = "ok"
    /\ \E m \in Names : m # last.name /\ fs[m] = "ok"

(***************************************************************************)
(* Properties of the derived version fields (specification SpecVersion).   *)
(***************************************************************************)
\* C13: for a full version built as impl-ver-sys-mach-libc from five non-empty
\* dash-free fields, implementation, version_segment, system, machine and libc
\* return exactly impl, ver, sys, mach and libc.
C13_FieldsRecovered ==
    /\ props.prop = "implementation" => props.value = fields[1]
    /\ props.prop = "version_segment" => props.value = fields[2]
    /\ props.prop = "system" => props.value = fields[3]
    /\ props.prop = "machine" => props.value = fields[4]
    /\ props.prop = "libc" => props.value = fields[5]

C13_Witness ==
    /\ props.prop = "machine" /\ props.value = fields[4]
    /\ fields[4] # fields[2] /\ fields[4] # fields[5]

\* C14: for a five-field full version, is_free_threaded is true if and only if
\* the version segment (the second field) contains the free-threading marker; a marker
\* in another field alone does not make it true.
C14_FreeThreadedFromVersion ==
    props.prop = "is_free_threaded" => (props.value <=> contains_marker(fields[2]))

(***************************************************************************)
(* Properties of the CLI (specification SpecCli).                          *)
(***************************************************************************)
\* C12: every CLI command (with a known shell) ends with exit code 1 whenever
\* the core raised an error to it and with 0 otherwise; in particular activate
\* on a missing or corrupted environment and remove (without --force) on a
\* nonexistent environment end with 1.
C12_ExitCodes ==
    (cli.cmd # "none" /\ cli.shell) =>
        /\ cli.exit = IF cli.err # "none" THEN 1 ELSE 0
        /\ (cli.cmd = "activate" /\ cli.pre # "ok") => cli.exit = 1
        /\ (cli.cmd = "remove" /\ ~cli.force /\ cli.pre = "absent") => cli.exit = 1

====
